---------------------------- MODULE Spec2Model ----------------------------
(***************************************************************************)
(* A model of the WAHIS scraper: the report tabulation engine of           *)
(* tabulate.py (get_details, get_outbreaks, get_tests, process_report,     *)
(* process_reports) and the report download loop of download.py            *)
(* (get_reports).                                                          *)
(*                                                                         *)
(* Text is a sequence of one-character strings, so that partition, the     *)
(* regular-expression match, the substring test and the f-string are       *)
(* computed character by character.  A RawTable (one element of the list   *)
(* pandas.read_html returns) is a sequence of rows, a row a sequence of     *)
(* cells; table.loc[r, c] is table[r + 1][c + 1].  A pandas Series is a     *)
(* sequence of <<label, value>> entries (labels may repeat, as they may in  *)
(* pandas), a DataFrame a record of its column labels and its rows, each    *)
(* row carrying its index tuple.                                            *)
(***************************************************************************)
EXTENDS Integers, Sequences, FiniteSets, TLC

VARIABLES
    \* process_report on one document (specification Spec)
    doc,        \* the document: [path, body, tables]
    pc,         \* position inside process_report
    report_id,  \* local report_id
    details,    \* local details (a Series)
    outbreaks,  \* local outbreaks (a DataFrame)
    tests,      \* local tests (a DataFrame)
    exc,        \* the exception that left process_report, or "none"
    \* process_reports on a batch (specification SpecBatch)
    paths,      \* the batch: a sequence of documents
    bpc,        \* position inside process_reports
    results,    \* triples the generator has yielded so far
    final,      \* the (reports, outbreaks, tests) tables returned
    bexc,       \* the exception that left process_reports, or "none"
    \* get_reports (specification SpecDownload)
    report_ids, \* the argument report_ids
    files,      \* out_dir: report id -> content of <report_id>.html
    dpc,        \* position inside get_reports
    pos,        \* index of the current report_id
    attempt,    \* loop variable of the retry loop
    report_resp,\* local report_resp
    lastOk,     \* whether the last requests.get of the current id returned
    served,     \* bodies the server has returned, per report id
    requests,   \* number of requests.get calls made, per report id
    wrote,      \* report ids whose file get_reports opened for writing
    skipped,    \* counter skipped
    retrieved,  \* counter retrieved
    dexc        \* the exception that left get_reports, or "none"

tabVars == <<doc, pc, report_id, details, outbreaks, tests, exc>>
batchVars == <<paths, bpc, results, final, bexc>>
dlVars == <<report_ids, files, dpc, pos, attempt, report_resp, lastOk, served,
            requests, wrote, skipped, retrieved, dexc>>
vars == <<tabVars, batchVars, dlVars>>

-----------------------------------------------------------------------------
(* Bounds of the model *)

\* longest run of tables after the metadata tables of a document
MaxTail == 4
\* longest batch handed to process_reports
MaxBatch == 2
\* longest list of report ids handed to get_reports
MaxIds == 3

-----------------------------------------------------------------------------
(* Program constants *)

MAX_RETRIES == 5

REPORT_URL ==
    <<"h","t","t","p","s",":","/","/","w","w","w",".","o","i","e",".","i","n","t","/","w","a","h","i","s","_","2","/","p","u","b","l","i","c","/","w","a","h","i","d",".","p","h","p","/","R","e","v","i","e","w","r","e","p","o","r","t","/","R","e","v","i","e","w","?","r","e","p","o","r","t","i","d","=">>
L_REPORT_TYPE ==
    <<"R","e","p","o","r","t"," ","t","y","p","e">>
L_SOURCE ==
    <<"S","o","u","r","c","e"," ","o","f"," ","t","h","e"," ","o","u","t","b","r","e","a","k","(","s",")"," ","o","r"," ","o","r","i","g","i","n"," ","o","f"," ","i","n","f","e","c","t","i","o","n">>
L_MEASURES ==
    <<"M","e","a","s","u","r","e","s"," ","a","p","p","l","i","e","d">>
L_DISEASE ==
    <<"D","i","s","e","a","s","e">>
L_COUNTRY ==
    <<"C","o","u","n","t","r","y">>
L_URL ==
    <<"U","r","l">>
L_REPORT_DATE ==
    <<"R","e","p","o","r","t"," ","d","a","t","e">>
L_REPORT_ID ==
    <<"R","e","p","o","r","t"," ","I","D">>
L_OUTBREAK_NO ==
    <<"O","u","t","b","r","e","a","k"," ","#">>
L_TEST_NO ==
    <<"T","e","s","t"," ","#">>
L_SPECIES ==
    <<"S","p","e","c","i","e","s">>
L_LOCATION ==
    <<"L","o","c","a","t","i","o","n">>
L_AFFECTED ==
    <<"A","f","f","e","c","t","e","d"," ","a","n","i","m","a","l","s">>
L_LAB ==
    <<"L","a","b","o","r","a","t","o","r","y"," ","n","a","m","e"," ","a","n","d"," ","t","y","p","e">>
OUTBREAK_PREFIX ==
    <<"O","u","t","b","r","e","a","k"," ">>
APP_ERROR ==
    <<"A","p","p","l","i","c","a","t","i","o","n"," ","E","r","r","o","r">>

\* the three labels of get_details' metadata field tables
META_LABELS == {L_REPORT_TYPE, L_SOURCE, L_MEASURES}

\* a cell that pandas parsed as a float NaN (an empty cell): not text
NaN == <<"NaN">>

-----------------------------------------------------------------------------
(* Text *)

Digits == {"0", "1", "2", "3", "4", "5", "6", "7", "8", "9"}

DigitVal(c) ==
    CASE c = "0" -> 0 [] c = "1" -> 1 [] c = "2" -> 2 [] c = "3" -> 3
      [] c = "4" -> 4 [] c = "5" -> 5 [] c = "6" -> 6 [] c = "7" -> 7
      [] c = "8" -> 8 [] c = "9" -> 9

\* hasattr(cell, "replace"): the cell is a str
IsText(c) == c # NaN

\* str.startswith
StartsWith(s, p) ==
    /\ Len(s) >= Len(p)
    /\ SubSeq(s, 1, Len(p)) = p

\* sub in s
Contains(s, sub) ==
    \E i \in 1..(Len(s) - Len(sub) + 1) : SubSeq(s, i, i + Len(sub) - 1) = sub

\* index of the first ch in s, 0 when there is none
IndexOf(s, ch) ==
    IF \E i \in 1..Len(s) : s[i] = ch
    THEN CHOOSE i \in 1..Len(s) : s[i] = ch /\ \A j \in 1..(i - 1) : s[j] # ch
    ELSE 0

\* str.partition(ch): <<head, separator, tail>>
partition(s, ch) ==
    LET i == IndexOf(s, ch)
    IN  IF i = 0 THEN <<s, <<>>, <<>>>>
        ELSE <<SubSeq(s, 1, i - 1), <<ch>>, SubSeq(s, i + 1, Len(s))>>

\* the end of the maximal run of digits of s that starts at i (i - 1 if none)
RECURSIVE DigitRunEnd(_, _)
DigitRunEnd(s, i) ==
    IF i <= Len(s) /\ s[i] \in Digits THEN DigitRunEnd(s, i + 1) ELSE i - 1

\* int(ds) of a run of digits
RECURSIVE ParseInt(_)
ParseInt(ds) ==
    IF ds = <<>> THEN 0
    ELSE 10 * ParseInt(SubSeq(ds, 1, Len(ds) - 1)) + DigitVal(ds[Len(ds)])

\* re.match("^Outbreak ([0-9]+)", s): group 1, or <<>> when there is no match
OutbreakMatch(s) ==
    IF StartsWith(s, OUTBREAK_PREFIX)
    THEN SubSeq(s, Len(OUTBREAK_PREFIX) + 1, DigitRunEnd(s, Len(OUTBREAK_PREFIX) + 1))
    ELSE <<>>

\* re.findall("[0-9]+", s): the matches, left to right
RECURSIVE FindAllDigits(_, _)
FindAllDigits(s, i) ==
    IF i > Len(s) THEN <<>>
    ELSE IF s[i] \in Digits
         THEN <<SubSeq(s, i, DigitRunEnd(s, i))>>
                  \o FindAllDigits(s, DigitRunEnd(s, i) + 1)
         ELSE FindAllDigits(s, i + 1)

-----------------------------------------------------------------------------
(* Results of a call: a value returned, or an exception raised *)

Return(v) == [raised |-> FALSE, exc |-> "none", value |-> v]
Raise(e) == [raised |-> TRUE, exc |-> e, value |-> <<>>]

-----------------------------------------------------------------------------
(* pandas Series and DataFrame *)

\* pd.Series()
EmptySeries == [name |-> <<>>, entries |-> <<>>]

\* pd.DataFrame()
EmptyFrame == [columns |-> <<>>, rows |-> <<>>]

SeqToSet(s) == {s[i] : i \in 1..Len(s)}

\* position of label c among the labels cols, 0 when absent
ColPos(cols, c) ==
    IF \E i \in 1..Len(cols) : cols[i] = c
    THEN CHOOSE i \in 1..Len(cols) : cols[i] = c /\ \A j \in 1..(i - 1) : cols[j] # c
    ELSE 0

\* table.set_index(0)[1]: the Series of column 1 labelled by column 0
SetIndex0Col1(table) == [i \in 1..Len(table) |-> <<table[i][1], table[i][2]>>]

\* the labels of a Series' entries
Labels(entries) == [i \in 1..Len(entries) |-> entries[i][1]]

\* entries without those labelled l (del series[l])
RECURSIVE DelLabel(_, _)
DelLabel(entries, l) ==
    IF entries = <<>> THEN <<>>
    ELSE IF entries[1][1] = l THEN DelLabel(Tail(entries), l)
         ELSE <<entries[1]>> \o DelLabel(Tail(entries), l)

\* the values a Series holds under label l, in order
RECURSIVE ValuesOf(_, _)
ValuesOf(entries, l) ==
    IF entries = <<>> THEN <<>>
    ELSE IF entries[1][1] = l THEN <<entries[1][2]>> \o ValuesOf(Tail(entries), l)
         ELSE ValuesOf(Tail(entries), l)

\* series.l = v: every entry labelled l takes the value v
SetLabel(entries, l, v) ==
    [i \in 1..Len(entries) |->
        IF entries[i][1] = l THEN <<l, v>> ELSE entries[i]]

\* DataFrame.insert(at, name, value) of a scalar, at counted from 0;
\* pandas refuses a column label the frame already has
InsertCol(frame, at, name, value) ==
    IF ColPos(frame.columns, name) # 0 THEN Raise("ValueError")
    ELSE Return([columns |-> SubSeq(frame.columns, 1, at) \o <<name>>
                                \o SubSeq(frame.columns, at + 1, Len(frame.columns)),
                 rows |-> [i \in 1..Len(frame.rows) |->
                    [index |-> frame.rows[i].index,
                     vals |-> SubSeq(frame.rows[i].vals, 1, at) \o <<value>>
                                \o SubSeq(frame.rows[i].vals, at + 1,
                                          Len(frame.rows[i].vals))]]])

\* DataFrame.assign(label=value) of one scalar: overwrite the column of that
\* label, or add it as the last column
AssignCol(frame, name, value) ==
    LET p == ColPos(frame.columns, name)
    IN  IF p # 0
        THEN [columns |-> frame.columns,
              rows |-> [i \in 1..Len(frame.rows) |->
                 [index |-> frame.rows[i].index,
                  vals |-> [frame.rows[i].vals EXCEPT ![p] = value]]]]
        ELSE [columns |-> Append(frame.columns, name),
              rows |-> [i \in 1..Len(frame.rows) |->
                 [index |-> frame.rows[i].index,
                  vals |-> Append(frame.rows[i].vals, value)]]]

\* DataFrame.assign(**series): one AssignCol per entry, in order
RECURSIVE AssignAll(_, _)
AssignAll(frame, entries) ==
    IF entries = <<>> THEN frame
    ELSE AssignAll(AssignCol(frame, entries[1][1], entries[1][2]), Tail(entries))

\* PromoteHeader without the iloc[1:]: the header row stays among the rows
PromoteHeaderKeepingRow(table) ==
    [columns |-> table[1],
     rows |-> [i \in 1..Len(table) |-> [index |-> <<i - 1>>, vals |-> table[i]]]]

\* table.columns = table.loc[0]; table.iloc[1:]: the first row becomes the
\* column labels, the other rows keep their index label (their position)
PromoteHeader(table) ==
    [columns |-> table[1],
     rows |-> [i \in 1..(Len(table) - 1) |-> [index |-> <<i>>, vals |-> table[i + 1]]]]

\* the union of the frames' column labels, in order of first appearance
RECURSIVE UnionColumns(_, _)
UnionColumns(acc, cols) ==
    IF cols = <<>> THEN acc
    ELSE UnionColumns(IF ColPos(acc, cols[1]) = 0 THEN Append(acc, cols[1]) ELSE acc,
                      Tail(cols))

RECURSIVE ConcatColumns(_, _)
ConcatColumns(acc, frames) ==
    IF frames = <<>> THEN acc
    ELSE ConcatColumns(UnionColumns(acc, frames[1].columns), Tail(frames))

\* a row of frame laid out on the columns cols, NaN where it has no value
Realign(frame, row, cols) ==
    [index |-> row.index,
     vals |-> [j \in 1..Len(cols) |->
        IF ColPos(frame.columns, cols[j]) = 0 THEN NaN
        ELSE row.vals[ColPos(frame.columns, cols[j])]]]

RECURSIVE ConcatRows(_, _)
ConcatRows(frames, cols) ==
    IF frames = <<>> THEN <<>>
    ELSE [i \in 1..Len(frames[1].rows) |-> Realign(frames[1], frames[1].rows[i], cols)]
            \o ConcatRows(Tail(frames), cols)

\* pd.concat(frames, sort=False) of DataFrames
concat(frames) ==
    LET cols == ConcatColumns(<<>>, frames)
    IN  [columns |-> cols, rows |-> ConcatRows(frames, cols)]

\* a sequence without its elements at the positions drop
RECURSIVE Without(_, _, _)
Without(s, drop, i) ==
    IF i > Len(s) THEN <<>>
    ELSE (IF i \in drop THEN <<>> ELSE <<s[i]>>) \o Without(s, drop, i + 1)

\* DataFrame.set_index([a, b]): the two columns become the index
SetIndex2(frame, a, b) ==
    LET pa == ColPos(frame.columns, a)
        pb == ColPos(frame.columns, b)
    IN  [columns |-> Without(frame.columns, {pa, pb}, 1),
         rows |-> [i \in 1..Len(frame.rows) |->
            [index |-> <<frame.rows[i].vals[pa], frame.rows[i].vals[pb]>>,
             vals |-> Without(frame.rows[i].vals, {pa, pb}, 1)]]]

\* ResetIndexAs with reset_index(drop=True) before it: the rows are numbered
\* anew from 0
ResetIndexRenumbered(frame, name) ==
    [columns |-> <<name>> \o frame.columns,
     rows |-> [i \in 1..Len(frame.rows) |->
        [index |-> <<i - 1>>,
         vals |-> <<i - 1>> \o frame.rows[i].vals]]]

\* DataFrame.reset_index().rename(columns={"index": name}): the index label
\* becomes the first column
ResetIndexAs(frame, name) ==
    [columns |-> <<name>> \o frame.columns,
     rows |-> [i \in 1..Len(frame.rows) |->
        [index |-> <<i - 1>>,
         vals |-> <<frame.rows[i].index[1]>> \o frame.rows[i].vals]]]

-----------------------------------------------------------------------------
(* tabulate.py *)

\* the loop of get_details: the Series of every metadata field table is
\* appended to out (Series.append concatenates; it replaces nothing)
RECURSIVE FoldMeta(_, _)
FoldMeta(tables, out) ==
    IF tables = <<>> THEN Return(out)
    ELSE IF tables[1][1][1] \in META_LABELS
         THEN IF Len(tables[1][1]) < 2 THEN Raise("KeyError")
              ELSE FoldMeta(Tail(tables), out \o SetIndex0Col1(tables[1]))
         ELSE FoldMeta(Tail(tables), out)

get_details(tables, rid) ==
    IF Len(tables) < 2 THEN Raise("IndexError")
    ELSE IF Len(tables[2][1]) < 2 THEN Raise("KeyError")
    ELSE IF ~IsText(tables[2][1][2]) THEN Raise("AttributeError")
    ELSE LET p == partition(tables[2][1][2], ",")
             out == << <<L_DISEASE, p[1]>>, <<L_COUNTRY, p[3]>>,
                       <<L_URL, REPORT_URL \o rid>> >>
             folded == FoldMeta(tables, out)
         IN  IF folded.raised THEN folded
             ELSE Return([name |-> rid, entries |-> folded.value])

\* f"{v}" of a cell
Format(v) == IF v = NaN THEN <<"n", "a", "n">> ELSE v

\* f"{outbreak_table.Location}, {country}"
LocationOf(location, country) == Format(location) \o <<",", " ">> \o Format(country)

\* lines 55-57: the header table as a Series, its first label "Location",
\* the country appended to the location
HeaderSeries(outbreak_table, country) ==
    LET relabelled == [outbreak_table EXCEPT ![1][1] = L_LOCATION]
        series == SetIndex0Col1(relabelled)
    IN  SetLabel(series, L_LOCATION, LocationOf(series[1][2], country))

\* lines 46-63, one iteration of the loop of get_outbreaks: <<>> for a
\* continue, else <<frame>>, the frame appended to outbreaks, or the
\* exception raised
OutbreakPair(outbreak_table, species_table, country) ==
    IF ~IsText(outbreak_table[1][1]) THEN Return(<<>>)
    ELSE IF OutbreakMatch(outbreak_table[1][1]) = <<>> THEN Return(<<>>)
    ELSE IF species_table[1][1] # L_SPECIES THEN Raise("AssertionError")
    ELSE IF Len(outbreak_table[1]) < 2 THEN Raise("KeyError")
    ELSE LET header == HeaderSeries(outbreak_table, country)
         IN  IF ColPos(Labels(header), L_AFFECTED) = 0 THEN Raise("KeyError")
             ELSE LET kept == DelLabel(header, L_AFFECTED)
                      numbered == InsertCol(PromoteHeader(species_table), 0, L_OUTBREAK_NO,
                                            ParseInt(OutbreakMatch(outbreak_table[1][1])))
                  IN  IF numbered.raised THEN numbered
                      ELSE IF \/ Cardinality(SeqToSet(Labels(kept))) # Len(kept)
                              \/ \E i \in 1..Len(kept) : ~IsText(kept[i][1])
                           THEN Raise("TypeError")
                           ELSE Return(<<AssignAll(numbered.value, kept)>>)

\* line 45, the loop over zip(tables, tables[1:]): iteration i pairs
\* tables[i] with tables[i + 1]
RECURSIVE OutbreakLoop(_, _, _, _)
OutbreakLoop(tables, i, country, acc) ==
    IF i + 1 > Len(tables) THEN Return(acc)
    ELSE LET r == OutbreakPair(tables[i], tables[i + 1], country)
         IN  IF r.raised THEN r
             ELSE OutbreakLoop(tables, i + 1, country, acc \o r.value)

get_outbreaks(tables, rid, country) ==
    LET looped == OutbreakLoop(tables, 1, country, <<>>)
    IN  IF looped.raised THEN looped
        ELSE IF looped.value = <<>> THEN Return(EmptyFrame)
        ELSE LET withId == InsertCol(concat(looped.value), 0, L_REPORT_ID, rid)
             IN  IF withId.raised THEN withId
                 ELSE Return(SetIndex2(withId.value, L_REPORT_ID, L_OUTBREAK_NO))

\* lines 73-78: the last table whose cell (0,0) is the laboratory label,
\* its first row promoted; "none" models None
RECURSIVE FindTestTable(_, _)
FindTestTable(tables, found) ==
    IF tables = <<>> THEN found
    ELSE FindTestTable(Tail(tables),
                       IF tables[1][1][1] = L_LAB
                       THEN [none |-> FALSE, frame |-> PromoteHeader(tables[1])]
                       ELSE found)

get_tests(tables, rid) ==
    LET test_table == FindTestTable(tables, [none |-> TRUE, frame |-> EmptyFrame])
    IN  IF test_table.none THEN Return(EmptyFrame)
        ELSE LET withId == InsertCol(test_table.frame, 0, L_REPORT_ID, rid)
             IN  IF withId.raised THEN withId
                 ELSE Return(SetIndex2(ResetIndexAs(withId.value, L_TEST_NO),
                                       L_REPORT_ID, L_TEST_NO))

\* read_html without the test for the marker: the ValueError is re-raised
ReadHtmlReraising(d) ==
    IF d.tables # <<>> THEN Return(d.tables) ELSE Raise("ValueError")

\* lines 93-99: pd.read_html raises ValueError when the page has no table;
\* the placeholder test reads the raw body only then.  The value is the list
\* of tables, or <<>> for the placeholder (read_html returns no empty list)
read_html(d) ==
    IF d.tables # <<>> THEN Return(d.tables)
    ELSE IF Contains(d.body, APP_ERROR) THEN Return(<<>>)
    ELSE Raise("ValueError")

\* line 100: re.findall("[0-9]+", path)[0]
ReportIdOf(path) ==
    LET found == FindAllDigits(path, 1)
    IN  IF found = <<>> THEN Raise("IndexError") ELSE Return(found[1])

\* details.Disease, details.Country: the value under the label (the tables of
\* the model have no metadata row labelled Disease or Country, so the label
\* is unique in details)
Attr(series, l) == ValuesOf(series.entries, l)[1]

\* df.insert(2, "Report date", details["Report date"]): a KeyError without
\* the label; the scalar when the label is unique; when the label recurs the
\* value is a Series, which pandas cannot align with the rows of a non-empty
\* frame (ValueError) and which gives an empty frame its own index
InsertReportDate(frame, series) ==
    LET dates == ValuesOf(series.entries, L_REPORT_DATE)
    IN  IF dates = <<>> THEN Raise("KeyError")
        ELSE IF Len(dates) = 1 THEN InsertCol(frame, 2, L_REPORT_DATE, dates[1])
        ELSE IF ColPos(frame.columns, L_REPORT_DATE) # 0 THEN Raise("ValueError")
        ELSE IF frame.rows # <<>> THEN Raise("ValueError")
        ELSE Return([columns |-> SubSeq(frame.columns, 1, 2) \o <<L_REPORT_DATE>>
                                    \o SubSeq(frame.columns, 3, Len(frame.columns)),
                     rows |-> [i \in 1..Len(dates) |->
                        [index |-> <<L_REPORT_DATE>>,
                         vals |-> [j \in 1..(Len(frame.columns) + 1) |->
                                      IF j = 3 THEN dates[i] ELSE NaN]]]])

\* lines 105-107, the body of the loop for one df
InsertColumns(df, series) ==
    LET a == InsertCol(df, 0, L_DISEASE, Attr(series, L_DISEASE))
    IN  IF a.raised THEN a
        ELSE LET b == InsertCol(a.value, 1, L_COUNTRY, Attr(series, L_COUNTRY))
             IN  IF b.raised THEN b ELSE InsertReportDate(b.value, series)

\* lines 104-108: both frames take the three columns; the triple is returned
Finish(series, obs, tsts) ==
    LET o == InsertColumns(obs, series)
    IN  IF o.raised THEN o
        ELSE LET t == InsertColumns(tsts, series)
             IN  IF t.raised THEN t
                 ELSE Return(<<series, o.value, t.value>>)

process_report(d) ==
    LET tables == read_html(d)
    IN  IF tables.raised THEN tables
        ELSE IF tables.value = <<>>
             THEN Return(<<EmptySeries, EmptyFrame, EmptyFrame>>)
        ELSE LET rid == ReportIdOf(d.path)
             IN  IF rid.raised THEN rid
        ELSE LET det == get_details(tables.value, rid.value)
             IN  IF det.raised THEN det
        ELSE LET obs == get_outbreaks(tables.value, rid.value,
                                      Attr(det.value, L_COUNTRY))
             IN  IF obs.raised THEN obs
        ELSE LET tsts == get_tests(tables.value, rid.value)
             IN  IF tsts.raised THEN tsts
        ELSE Finish(det.value, obs.value, tsts.value)

-----------------------------------------------------------------------------
(* Values of the batch and of the download directory *)

\* the three tables of process_reports before they are built
NoTables == [reports |-> EmptyFrame, outbreaks |-> EmptyFrame, tests |-> EmptyFrame]

\* the report ids of the model
IdPool == {"101", "102", "103"}

Absent == [kind |-> "absent", of |-> ""]
\* a file that was in out_dir before get_reports ran
Cached(id) == [kind |-> "cached", of |-> id]
\* a file opened for writing and never written
Truncated == [kind |-> "empty", of |-> ""]
\* report_resp.text of a request for id that returned
Body(id) == [kind |-> "body", of |-> id]
\* the local report_resp before its first assignment
Unbound == [kind |-> "unbound", of |-> ""]

\* the path "r/12345.html"
P_12345 ==
    <<"r","/","1","2","3","4","5",".","h","t","m","l">>

\* a path without a digit, "r/x.html"
P_NODIGIT ==
    <<"r","/","x",".","h","t","m","l">>

\* the raw body of a report page
BODY_REPORT ==
    <<"<","t","a","b","l","e",">">>

\* the raw body of the platform's error page
BODY_ERROR ==
    <<"<","h","1",">","A","p","p","l","i","c","a","t","i","o","n"," ","E","r","r","o","r","<","/","h","1",">">>

\* a one-column table (the page title)
T_TITLE ==
    <<<<<<"W","A","H","I","S">>>>>>

\* the disease/country table of the example
T_DETAILS ==
    <<<<<<"N","a","m","e">>, <<"A","f","r","i","c","a","n"," ","s","w","i","n","e"," ","f","e","v","e","r",","," ","V","i","e","t"," ","N","a","m">>>>>>

\* a disease/country table without a space after the comma
T_DETAILS_TIGHT ==
    <<<<<<"N","a","m","e">>, <<"A","S","F",",","V","N">>>>>>

\* a disease/country table without a comma
T_DETAILS_NOCOMMA ==
    <<<<<<"N","a","m","e">>, <<"A","S","F">>>>>>

\* a disease/country table whose value cell is empty
T_DETAILS_NAN ==
    <<<<<<"N","a","m","e">>, NaN>>>>

\* the "Report type" metadata table
T_REPORT_TYPE ==
    <<<<<<"R","e","p","o","r","t"," ","t","y","p","e">>, <<"I","m","m","e","d","i","a","t","e">>>>,
      <<<<"R","e","p","o","r","t"," ","d","a","t","e">>, <<"2","0","2","0">>>>>>

\* a "Measures applied" metadata table that repeats the label "Report type"
T_MEASURES ==
    <<<<<<"M","e","a","s","u","r","e","s"," ","a","p","p","l","i","e","d">>, <<"C","u","l","l">>>>,
      <<<<"R","e","p","o","r","t"," ","t","y","p","e">>, <<"F","o","l","l","o","w","-","u","p">>>>>>

\* the "Source of the outbreak(s) or origin of infection" metadata table
T_SOURCE ==
    <<<<<<"S","o","u","r","c","e"," ","o","f"," ","t","h","e"," ","o","u","t","b","r","e","a","k","(","s",")"," ","o","r"," ","o","r","i","g","i","n"," ","o","f"," ","i","n","f","e","c","t","i","o","n">>, <<"S","w","i","l","l">>>>>>

\* a laboratory table with two tests
T_LAB ==
    <<<<<<"L","a","b","o","r","a","t","o","r","y"," ","n","a","m","e"," ","a","n","d"," ","t","y","p","e">>, <<"R","e","s","u","l","t">>>>,
      <<<<"N","V","L">>, <<"P","o","s">>>>,
      <<<<"R","L">>, <<"N","e","g">>>>>>

\* a laboratory table with one test
T_LAB2 ==
    <<<<<<"L","a","b","o","r","a","t","o","r","y"," ","n","a","m","e"," ","a","n","d"," ","t","y","p","e">>, <<"R","e","s","u","l","t">>>>,
      <<<<"O","I","E">>, <<"P","o","s">>>>>>

\* outbreak header: Outbreak 1 at Hanoi
T_H1 ==
    <<<<<<"O","u","t","b","r","e","a","k"," ","1">>, <<"H","a","n","o","i">>>>,
      <<<<"A","f","f","e","c","t","e","d"," ","a","n","i","m","a","l","s">>, <<"P","i","g","s">>>>,
      <<<<"D","a","t","e">>, <<"J","a","n">>>>>>

\* outbreak header: Outbreak 2 at Hue
T_H2 ==
    <<<<<<"O","u","t","b","r","e","a","k"," ","2">>, <<"H","u","e">>>>,
      <<<<"U","n","i","t">>, <<"F","a","r","m">>>>,
      <<<<"A","f","f","e","c","t","e","d"," ","a","n","i","m","a","l","s">>, <<"P","i","g","s">>>>>>

\* outbreak header without "Affected animals": Outbreak 13
T_H13 ==
    <<<<<<"O","u","t","b","r","e","a","k"," ","1","3">>, <<"V","i","n","h">>>>,
      <<<<"D","a","t","e">>, <<"F","e","b">>>>>>

\* species table with two species rows
T_S1 ==
    <<<<<<"S","p","e","c","i","e","s">>, <<"C","a","s","e","s">>>>,
      <<<<"S","w","i","n","e">>, <<"5">>>>,
      <<<<"B","o","a","r">>, <<"2">>>>>>

\* species table with one species row
T_S2 ==
    <<<<<<"S","p","e","c","i","e","s">>, <<"D","e","a","t","h","s">>>>,
      <<<<"S","w","i","n","e">>, <<"7">>>>>>

\* a table whose cell (0,0) is empty
T_NAN ==
    <<<<NaN, <<"x">>>>>>
-----------------------------------------------------------------------------
(* The documents process_report is run on *)

\* the tables a document starts with
Fronts ==
    { <<T_TITLE, T_DETAILS, T_REPORT_TYPE>>,
      <<T_TITLE, T_DETAILS_TIGHT, T_REPORT_TYPE, T_LAB>>,
      <<T_TITLE, T_DETAILS, T_REPORT_TYPE, T_LAB, T_LAB2>>,
      <<T_TITLE, T_DETAILS, T_REPORT_TYPE, T_SOURCE, T_MEASURES>>,
      <<T_TITLE, T_DETAILS_NOCOMMA, T_REPORT_TYPE, T_REPORT_TYPE>>,
      <<T_TITLE, T_DETAILS, T_NAN>>,
      <<T_TITLE, T_DETAILS_NAN, T_REPORT_TYPE>>,
      <<T_TITLE, T_TITLE, T_REPORT_TYPE>> }

\* the tables that follow them, in any order
TailPool == {T_H1, T_H2, T_H13, T_S1, T_S2}

SeqsUpTo(S, n) == UNION {[1..k -> S] : k \in 0..n}

Document(path, body, tables) == [path |-> path, body |-> body, tables |-> tables]

\* report pages, and pages pd.read_html finds no table in
Documents ==
    {Document(P_12345, BODY_REPORT, f \o t) : f \in Fronts, t \in SeqsUpTo(TailPool, MaxTail)}
        \cup {Document(P_12345, BODY_REPORT, <<T_TITLE>>),
              Document(P_12345, BODY_ERROR, <<>>),
              Document(P_12345, BODY_REPORT, <<>>),
              Document(P_NODIGIT, BODY_REPORT, <<T_TITLE, T_DETAILS, T_REPORT_TYPE>>),
              Document(P_12345, BODY_ERROR, <<T_TITLE, T_DETAILS, T_REPORT_TYPE>>)}

-----------------------------------------------------------------------------
(* process_report, one call, statement by statement *)

TabIdle ==
    /\ doc = Document(<<>>, <<>>, <<>>)
    /\ pc = "idle"
    /\ report_id = <<>>
    /\ details = EmptySeries
    /\ outbreaks = EmptyFrame
    /\ tests = EmptyFrame
    /\ exc = "none"

BatchIdle ==
    /\ paths = <<>>
    /\ bpc = "idle"
    /\ results = <<>>
    /\ final = NoTables
    /\ bexc = "none"

DownloadIdle ==
    /\ report_ids = <<>>
    /\ files = [id \in IdPool |-> Absent]
    /\ dpc = "idle"
    /\ pos = 0
    /\ attempt = 0
    /\ report_resp = Unbound
    /\ lastOk = FALSE
    /\ served = [id \in IdPool |-> {}]
    /\ requests = [id \in IdPool |-> 0]
    /\ wrote = {}
    /\ skipped = 0
    /\ retrieved = 0
    /\ dexc = "none"

Init ==
    /\ doc \in Documents
    /\ pc = "read_html"
    /\ report_id = <<>>
    /\ details = EmptySeries
    /\ outbreaks = EmptyFrame
    /\ tests = EmptyFrame
    /\ exc = "none"
    /\ BatchIdle
    /\ DownloadIdle

Running == exc = "none"

\* lines 93-99: the tables are read; the placeholder returns the empty triple
ReadHtml ==
    /\ pc = "read_html" /\ Running
    /\ LET r == read_html(doc)
       IN  /\ exc' = r.exc
           /\ pc' = IF r.raised THEN pc
                    ELSE IF r.value = <<>> THEN "returned" ELSE "get_details"
    /\ UNCHANGED <<doc, report_id, details, outbreaks, tests>>

\* lines 100-101
GetDetails ==
    /\ pc = "get_details" /\ Running
    /\ LET rid == ReportIdOf(doc.path)
           r == IF rid.raised THEN rid ELSE get_details(doc.tables, rid.value)
       IN  /\ exc' = r.exc
           /\ report_id' = IF rid.raised THEN report_id ELSE rid.value
           /\ details' = IF r.raised THEN details ELSE r.value
           /\ pc' = IF r.raised THEN pc ELSE "get_outbreaks"
    /\ UNCHANGED <<doc, outbreaks, tests>>

\* line 102
GetOutbreaks ==
    /\ pc = "get_outbreaks" /\ Running
    /\ LET r == get_outbreaks(doc.tables, report_id, Attr(details, L_COUNTRY))
       IN  /\ exc' = r.exc
           /\ outbreaks' = IF r.raised THEN outbreaks ELSE r.value
           /\ pc' = IF r.raised THEN pc ELSE "get_tests"
    /\ UNCHANGED <<doc, report_id, details, tests>>

\* line 103
GetTests ==
    /\ pc = "get_tests" /\ Running
    /\ LET r == get_tests(doc.tables, report_id)
       IN  /\ exc' = r.exc
           /\ tests' = IF r.raised THEN tests ELSE r.value
           /\ pc' = IF r.raised THEN pc ELSE "insert"
    /\ UNCHANGED <<doc, report_id, details, outbreaks>>

\* lines 104-108
InsertAndReturn ==
    /\ pc = "insert" /\ Running
    /\ LET r == Finish(details, outbreaks, tests)
       IN  /\ exc' = r.exc
           /\ outbreaks' = IF r.raised THEN outbreaks ELSE r.value[2]
           /\ tests' = IF r.raised THEN tests ELSE r.value[3]
           /\ pc' = IF r.raised THEN pc ELSE "returned"
    /\ UNCHANGED <<doc, report_id, details>>

Next ==
    \/ /\ ReadHtml
       /\ UNCHANGED <<batchVars, dlVars>>
    \/ /\ GetDetails
       /\ UNCHANGED <<batchVars, dlVars>>
    \/ /\ GetOutbreaks
       /\ UNCHANGED <<batchVars, dlVars>>
    \/ /\ GetTests
       /\ UNCHANGED <<batchVars, dlVars>>
    \/ /\ InsertAndReturn
       /\ UNCHANGED <<batchVars, dlVars>>

Spec == Init /\ [][Next]_vars

-----------------------------------------------------------------------------
(* process_reports on a batch of documents *)

\* the paths "r/1.html" ... "r/7.html" of a batch (glob returns each file once)
BatchPath(n) ==
    <<"r","/">> \o <<n>> \o <<".","h","t","m","l">>

\* the raw body of a report page that quotes the words of the error page
BODY_QUOTING ==
    <<"<","t","a","b","l","e",">","A","p","p","l","i","c","a","t","i","o","n"," ","E","r","r","o","r">>
\* the documents of a batch
B_A == Document(BatchPath("1"), BODY_REPORT,
                <<T_TITLE, T_DETAILS, T_REPORT_TYPE, T_LAB, T_H1, T_S1>>)
B_B == Document(BatchPath("2"), BODY_REPORT,
                <<T_TITLE, T_DETAILS_TIGHT, T_REPORT_TYPE, T_H1, T_S2, T_H2, T_S1>>)
B_NOOUTBREAK == Document(BatchPath("3"), BODY_REPORT,
                         <<T_TITLE, T_DETAILS, T_REPORT_TYPE>>)
B_PLACEHOLDER == Document(BatchPath("4"), BODY_ERROR, <<>>)
\* an "Outbreak 2" header followed by a table that is no species table
B_BADPAIR == Document(BatchPath("5"), BODY_REPORT,
                      <<T_TITLE, T_DETAILS, T_REPORT_TYPE, T_H2, T_LAB>>)
\* a page without a table that is not the error page
B_NOTABLE == Document(BatchPath("6"), BODY_REPORT, <<>>)
\* a report page with tables whose body holds the marker
B_QUOTING == Document(BatchPath("7"), BODY_QUOTING,
                      <<T_TITLE, T_DETAILS, T_REPORT_TYPE, T_H1, T_S1>>)

BatchDocuments ==
    {B_A, B_B, B_NOOUTBREAK, B_PLACEHOLDER, B_BADPAIR, B_NOTABLE, B_QUOTING}

\* the batches: each file at most once
Batches ==
    {b \in SeqsUpTo(BatchDocuments, MaxBatch) :
        \A i, j \in 1..Len(b) : i # j => b[i] # b[j]}

\* a Series as a column of pd.concat(reports, axis=1), transposed: one row,
\* labelled by the Series' name, or by unnamed, the count of the nameless
\* Series before it, when it has no name
SeriesRow(series, unnamed) ==
    [columns |-> Labels(series.entries),
     rows |-> << [index |-> <<IF series.name = <<>> THEN unnamed ELSE series.name>>,
                  vals |-> [i \in 1..Len(series.entries) |-> series.entries[i][2]]] >>]

RECURSIVE SeriesRows(_, _)
SeriesRows(seriesList, unnamed) ==
    IF seriesList = <<>> THEN <<>>
    ELSE <<SeriesRow(seriesList[1], unnamed)>>
            \o SeriesRows(Tail(seriesList),
                          IF seriesList[1].name = <<>> THEN unnamed + 1 ELSE unnamed)

\* the rows with a value that is not NaN
RECURSIVE KeepValued(_)
KeepValued(rows) ==
    IF rows = <<>> THEN <<>>
    ELSE (IF \E j \in 1..Len(rows[1].vals) : rows[1].vals[j] # NaN
          THEN <<rows[1]>> ELSE <<>>) \o KeepValued(Tail(rows))

\* DataFrame.dropna(how="all", axis=0)
DropNaAll(frame) == [columns |-> frame.columns, rows |-> KeepValued(frame.rows)]

\* lines 115-120, given the triples the generator yielded
Assemble(triples) ==
    [reports |-> DropNaAll(concat(SeriesRows([i \in 1..Len(triples) |-> triples[i][1]], 0))),
     outbreaks |-> concat([i \in 1..Len(triples) |-> triples[i][2]]),
     tests |-> concat([i \in 1..Len(triples) |-> triples[i][3]])]

InitBatch ==
    /\ paths \in Batches
    /\ bpc = "extract"
    /\ results = <<>>
    /\ final = NoTables
    /\ bexc = "none"
    /\ TabIdle
    /\ DownloadIdle

\* lines 112-114: the generator runs process_report on the next path; an
\* exception it raises leaves process_reports
Extract ==
    /\ bpc = "extract" /\ bexc = "none"
    /\ Len(results) < Len(paths)
    /\ LET r == process_report(paths[Len(results) + 1])
       IN  /\ bexc' = r.exc
           /\ results' = IF r.raised THEN results ELSE Append(results, r.value)
    /\ UNCHANGED <<paths, bpc, final>>

\* lines 112-120 once the generator is exhausted: zip(*()) of no triple
\* cannot be unpacked into three names
AssembleTables ==
    /\ bpc = "extract" /\ bexc = "none"
    /\ Len(results) = Len(paths)
    /\ IF paths = <<>>
       THEN /\ bexc' = "ValueError"
            /\ UNCHANGED <<bpc, final>>
       ELSE /\ final' = Assemble(results)
            /\ bpc' = "done"
            /\ bexc' = bexc
    /\ UNCHANGED <<paths, results>>

NextBatch ==
    \/ /\ Extract
       /\ UNCHANGED <<tabVars, dlVars>>
    \/ /\ AssembleTables
       /\ UNCHANGED <<tabVars, dlVars>>

SpecBatch == InitBatch /\ [][NextBatch]_vars

-----------------------------------------------------------------------------
(* download.py: get_reports *)

InitDownload ==
    /\ report_ids \in SeqsUpTo(IdPool, MaxIds)
    /\ \E cached \in SUBSET IdPool :
          files = [id \in IdPool |-> IF id \in cached THEN Cached(id) ELSE Absent]
    /\ dpc = "loop"
    /\ pos = 1
    /\ attempt = 0
    /\ report_resp = Unbound
    /\ lastOk = FALSE
    /\ served = [id \in IdPool |-> {}]
    /\ requests = [id \in IdPool |-> 0]
    /\ wrote = {}
    /\ skipped = 0
    /\ retrieved = 0
    /\ dexc = "none"
    /\ TabIdle
    /\ BatchIdle

Current == report_ids[pos]

Downloading == dexc = "none"

\* lines 79-82
Skip ==
    /\ dpc = "loop" /\ Downloading
    /\ pos <= Len(report_ids)
    /\ files[Current].kind # "absent"
    /\ skipped' = skipped + 1
    /\ pos' = pos + 1
    /\ UNCHANGED <<report_ids, files, dpc, attempt, report_resp, lastOk, served,
                   requests, wrote, retrieved, dexc>>

\* lines 83-86: the retry loop is entered with attempt = 1
StartDownload ==
    /\ dpc = "loop" /\ Downloading
    /\ pos <= Len(report_ids)
    /\ files[Current].kind = "absent"
    /\ attempt' = 1
    /\ dpc' = "fetch"
    /\ lastOk' = FALSE
    /\ UNCHANGED <<report_ids, files, pos, report_resp, served, requests, wrote,
                   skipped, retrieved, dexc>>

\* lines 87-88, 92: requests.get returns; the break leaves the loop
FetchOk ==
    /\ dpc = "fetch" /\ Downloading
    /\ report_resp' = Body(Current)
    /\ served' = [served EXCEPT ![Current] = @ \cup {Body(Current)}]
    /\ requests' = [requests EXCEPT ![Current] = @ + 1]
    /\ lastOk' = TRUE
    /\ dpc' = "write"
    /\ UNCHANGED <<report_ids, files, pos, attempt, wrote, skipped, retrieved, dexc>>

\* lines 87-92: requests.get raises; the handler re-raises on the last
\* attempt and else falls through to the break, which leaves the loop
FetchFail ==
    /\ dpc = "fetch" /\ Downloading
    /\ requests' = [requests EXCEPT ![Current] = @ + 1]
    /\ lastOk' = FALSE
    /\ IF attempt = MAX_RETRIES
       THEN /\ dexc' = "Exception"
            /\ dpc' = dpc
       ELSE /\ dexc' = dexc
            /\ dpc' = "write"
    /\ UNCHANGED <<report_ids, files, pos, attempt, report_resp, served, wrote,
                   skipped, retrieved>>

\* lines 93-94: open(path, "w") creates the file, then report_resp.text is
\* evaluated: an UnboundLocalError when report_resp was never assigned
WriteFile ==
    /\ dpc = "write" /\ Downloading
    /\ wrote' = wrote \cup {Current}
    /\ IF report_resp = Unbound
       THEN /\ files' = [files EXCEPT ![Current] = Truncated]
            /\ dexc' = "UnboundLocalError"
            /\ UNCHANGED <<dpc, pos, retrieved>>
       ELSE /\ files' = [files EXCEPT ![Current] = report_resp]
            /\ retrieved' = retrieved + 1
            /\ pos' = pos + 1
            /\ dpc' = "loop"
            /\ dexc' = dexc
    /\ UNCHANGED <<report_ids, attempt, report_resp, lastOk, served, requests, skipped>>

\* line 95
Finished ==
    /\ dpc = "loop" /\ Downloading
    /\ pos > Len(report_ids)
    /\ dpc' = "done"
    /\ UNCHANGED <<report_ids, files, pos, attempt, report_resp, lastOk, served,
                   requests, wrote, skipped, retrieved, dexc>>

NextDownload ==
    \/ /\ Skip
       /\ UNCHANGED <<tabVars, batchVars>>
    \/ /\ StartDownload
       /\ UNCHANGED <<tabVars, batchVars>>
    \/ /\ FetchOk
       /\ UNCHANGED <<tabVars, batchVars>>
    \/ /\ FetchFail
       /\ UNCHANGED <<tabVars, batchVars>>
    \/ /\ WriteFile
       /\ UNCHANGED <<tabVars, batchVars>>
    \/ /\ Finished
       /\ UNCHANGED <<tabVars, batchVars>>

SpecDownload == InitDownload /\ [][NextDownload]_vars

-----------------------------------------------------------------------------
(* Properties of get_details, get_outbreaks and get_tests (Spec) *)

\* the table is an outbreak header: its cell (0,0) is text that starts with
\* "Outbreak <integer>"
IsOutbreakHeader(table) ==
    /\ IsText(table[1][1])
    /\ OutbreakMatch(table[1][1]) # <<>>

\* get_outbreaks raised
OutbreaksFailed == pc = "get_outbreaks" /\ exc # "none"

\* get_outbreaks returned, and no later statement has touched its result
OutbreaksReturned == pc = "get_tests"

\* get_details returned
DetailsReturned == pc \in {"get_outbreaks", "get_tests", "insert"}

HeaderPositions(tables) == {i \in 1..Len(tables) : IsOutbreakHeader(tables[i])}

\* the keys of a header table after its first row: the fields it broadcasts
\* besides the location, "Affected animals" among them
FieldRows(header) == 2..Len(header)

\* a table list is valid but for the "Affected animals" field: every outbreak
\* header is followed by a species table, header and species table have
\* label and value columns, and the labels of one pair do not repeat
ValidButAffected(tables) ==
    \A i \in HeaderPositions(tables) :
        /\ i < Len(tables)
        /\ tables[i + 1][1][1] = L_SPECIES
        /\ Len(tables[i][1]) >= 2
        /\ \A r \in FieldRows(tables[i]) :
              /\ IsText(tables[i][r][1])
              /\ tables[i][r][1] \notin {L_LOCATION, L_OUTBREAK_NO, L_REPORT_ID}
              /\ \A c \in 1..Len(tables[i + 1][1]) : tables[i][r][1] # tables[i + 1][1][c]
              /\ \A q \in FieldRows(tables[i]) : q # r => tables[i][q][1] # tables[i][r][1]
        /\ \A c \in 1..Len(tables[i + 1][1]) :
              /\ tables[i + 1][1][c] \notin {L_LOCATION, L_OUTBREAK_NO, L_REPORT_ID}
              /\ \A e \in 1..Len(tables[i + 1][1]) :
                    e # c => tables[i + 1][1][e] # tables[i + 1][1][c]

\* a valid table list: every header also has its "Affected animals" field
Valid(tables) ==
    /\ ValidButAffected(tables)
    /\ \A i \in HeaderPositions(tables) :
          \E r \in FieldRows(tables[i]) : tables[i][r][1] = L_AFFECTED

\* the species rows of a valid table list in document order: <<i, j>> is row
\* j of the species table that follows the header at position i
RECURSIVE SpeciesRows(_, _)
SpeciesRows(tables, i) ==
    IF i >= Len(tables) THEN <<>>
    ELSE (IF IsOutbreakHeader(tables[i])
          THEN [j \in 1..(Len(tables[i + 1]) - 1) |-> <<i, j + 1>>]
          ELSE <<>>) \o SpeciesRows(tables, i + 1)

\* what the outbreak row made from species row j of the pair at i holds in
\* column col: the species row's own cell, its own header's location with
\* the country, its own header's field, and nothing (NaN) in a column that
\* only another outbreak has
ExpectedCell(tables, i, j, col, country) ==
    LET header == tables[i]
        species == tables[i + 1]
    IN  IF \E c \in 1..Len(species[1]) : species[1][c] = col
        THEN species[j][CHOOSE c \in 1..Len(species[1]) : species[1][c] = col]
        ELSE IF col = L_LOCATION
        THEN header[1][2] \o <<",", " ">> \o country
        ELSE IF \E r \in FieldRows(header) : header[r][1] = col /\ col # L_AFFECTED
        THEN header[CHOOSE r \in FieldRows(header) : header[r][1] = col][2]
        ELSE NaN

\* C3: for every position i (the last included) whose table is an outbreak
\* header, either the table at i + 1 exists, has cell (0,0) "Species" and the
\* pair contributes outbreak rows, or get_outbreaks fails; no header is
\* skipped silently.
C3_HeaderNeverSkipped ==
    (OutbreaksReturned \/ OutbreaksFailed) =>
        \A i \in HeaderPositions(doc.tables) :
            \/ OutbreaksFailed
            \/ /\ i + 1 <= Len(doc.tables)
               /\ doc.tables[i + 1][1][1] = L_SPECIES
               /\ \E k \in 1..Len(outbreaks.rows) :
                     outbreaks.rows[k].index =
                        <<report_id, ParseInt(OutbreakMatch(doc.tables[i][1][1]))>>

\* C4: for a valid table list with N (header, species) pairs get_outbreaks
\* returns, in document order, exactly the data rows of the N species tables,
\* each indexed by the report id and the number of its own header and
\* holding its own header's location and fields and no other outbreak's; with
\* N = 0 it returns the empty frame and raises nothing.
C4_UnionOfSpeciesRows ==
    Valid(doc.tables) =>
        /\ ~OutbreaksFailed
        /\ OutbreaksReturned =>
              LET rows == SpeciesRows(doc.tables, 1)
              IN  /\ Len(outbreaks.rows) = Len(rows)
                  /\ rows = <<>> => outbreaks = EmptyFrame
                  /\ L_AFFECTED \notin SeqToSet(outbreaks.columns)
                  /\ \A k \in 1..Len(rows) :
                        LET i == rows[k][1]
                            j == rows[k][2]
                        IN  /\ outbreaks.rows[k].index =
                                  <<report_id, ParseInt(OutbreakMatch(doc.tables[i][1][1]))>>
                            /\ SeqToSet(doc.tables[i + 1][1]) \subseteq SeqToSet(outbreaks.columns)
                            /\ \A r \in FieldRows(doc.tables[i]) :
                                  doc.tables[i][r][1] # L_AFFECTED =>
                                      doc.tables[i][r][1] \in SeqToSet(outbreaks.columns)
                            /\ \A c \in 1..Len(outbreaks.columns) :
                                  outbreaks.rows[k].vals[c] =
                                      ExpectedCell(doc.tables, i, j, outbreaks.columns[c],
                                                   Attr(details, L_COUNTRY))

\* two outbreaks with different numbers and different fields were extracted
C4_Witness ==
    /\ OutbreaksReturned
    /\ Valid(doc.tables)
    /\ \E k, m \in 1..Len(outbreaks.rows) :
          /\ outbreaks.rows[k].index # outbreaks.rows[m].index
          /\ \E c \in 1..Len(outbreaks.columns) :
                outbreaks.rows[k].vals[c] = NaN /\ outbreaks.rows[m].vals[c] # NaN

\* C5: when the header of an outbreak has no "Affected animals" field, and
\* the table list is valid otherwise, get_outbreaks still succeeds.
C5_AffectedAnimalsOptional ==
    ValidButAffected(doc.tables) => ~OutbreaksFailed

\* str.strip of the blanks at both ends
RECURSIVE Strip(_)
Strip(s) ==
    IF s = <<>> THEN s
    ELSE IF s[1] = " " THEN Strip(Tail(s))
    ELSE IF s[Len(s)] = " " THEN Strip(SubSeq(s, 1, Len(s) - 1))
    ELSE s

\* C6: get_details splits the disease/country cell of table[1] on the first
\* comma: the text before it is the disease, the text after it, trimmed, is
\* the country, so that an outbreak at "Hanoi" has the location
\* "Hanoi, Viet Nam" on each of its rows.
C6_DiseaseAndTrimmedCountry ==
    /\ DetailsReturned =>
          /\ Attr(details, L_DISEASE) = partition(doc.tables[2][1][2], ",")[1]
          /\ Attr(details, L_COUNTRY) = Strip(partition(doc.tables[2][1][2], ",")[3])
    /\ (OutbreaksReturned /\ Valid(doc.tables)) =>
          \A k \in 1..Len(outbreaks.rows) :
              outbreaks.rows[k].vals[ColPos(outbreaks.columns, L_LOCATION)] =
                  doc.tables[SpeciesRows(doc.tables, 1)[k][1]][1][2] \o <<",", " ">>
                      \o Strip(partition(doc.tables[2][1][2], ",")[3])

\* get_tests returned, and no later statement has touched its result
TestsReturned == pc = "insert"

LabPositions(tables) == {i \in 1..Len(tables) : tables[i][1][1] = L_LAB}

\* C7: each data row of the laboratory table (the last one, if several) has
\* as its test number its 0-based position among the rows of the table as
\* parsed (the promoted header row is position 0), the rows are indexed by
\* (report id, test number), the numbers are pairwise distinct, and without a
\* laboratory table the test set is empty.
C7_TestNumbers ==
    /\ ~(pc = "get_tests" /\ exc # "none")
    /\ TestsReturned =>
          IF LabPositions(doc.tables) = {} THEN tests = EmptyFrame
          ELSE LET last == CHOOSE i \in LabPositions(doc.tables) :
                              \A q \in LabPositions(doc.tables) : q <= i
                   lab == doc.tables[last]
               IN  /\ tests.columns = lab[1]
                   /\ Len(tests.rows) = Len(lab) - 1
                   /\ \A k \in 1..Len(tests.rows) :
                         /\ tests.rows[k].index = <<report_id, k>>
                         /\ tests.rows[k].vals = lab[k + 1]
                   /\ \A k, m \in 1..Len(tests.rows) :
                         k # m => tests.rows[k].index # tests.rows[m].index

\* a test set of two tests was extracted
C7_Witness ==
    /\ TestsReturned
    /\ Len(tests.rows) >= 2

\* the rows of the metadata field tables, in table order
RECURSIVE MetaRows(_)
MetaRows(tables) ==
    IF tables = <<>> THEN <<>>
    ELSE (IF tables[1][1][1] \in META_LABELS
          THEN [r \in 1..Len(tables[1]) |-> <<tables[1][r][1], tables[1][r][2]>>]
          ELSE <<>>) \o MetaRows(Tail(tables))

\* C8: the record get_details returns holds one entry per label, and the
\* value of a label that recurs in the metadata field tables, or that is
\* set already (Disease, Country, Url), is the last one in table order.
C8_OneEntryPerLabel ==
    DetailsReturned =>
        LET seen == SubSeq(details.entries, 1, 3) \o MetaRows(doc.tables)
        IN  \A a \in 1..Len(seen) :
                LET values == ValuesOf(seen, seen[a][1])
                IN  ValuesOf(details.entries, seen[a][1]) = <<values[Len(values)]>>

-----------------------------------------------------------------------------
(* Properties of process_reports (SpecBatch) *)

\* process_reports has returned or raised
BatchEnded == bpc = "done" \/ bexc # "none"

\* the rows of a frame whose first index level is the report id rid
RowsOf(frame, rid) == {k \in 1..Len(frame.rows) : frame.rows[k].index[1] = rid}

\* C1: when a report of the batch hits a structural failure, the batch is not
\* aborted: every other report that process_report handles is processed and
\* its rows are in the final reports, outbreaks and tests tables.
C1_FaultContainment ==
    (BatchEnded /\ \E j \in 1..Len(paths) : process_report(paths[j]).raised) =>
        \A i \in 1..Len(paths) :
            LET r == process_report(paths[i])
            IN  (~r.raised /\ r.value[1] # EmptySeries) =>
                    /\ Cardinality(RowsOf(final.reports, r.value[1].name)) = 1
                    /\ Cardinality(RowsOf(final.outbreaks, r.value[1].name))
                          = Len(r.value[2].rows)
                    /\ Cardinality(RowsOf(final.tests, r.value[1].name))
                          = Len(r.value[3].rows)

\* the raw body of the document holds the application-error marker
HasMarker(d) == Contains(d.body, APP_ERROR)

\* the document is the error page: no table can be parsed out of it and its
\* body holds the marker
IsPlaceholder(d) == d.tables = <<>> /\ HasMarker(d)

\* what process_reports does with the documents of the set marked:
\* process_report returns the empty triple for each and raises for none, and
\* the final reports table has a row for each other document and for none
\* of them
PlaceholderHandling(marked) ==
    /\ \A i \in 1..Len(results) :
          paths[i] \in marked => results[i] = <<EmptySeries, EmptyFrame, EmptyFrame>>
    /\ (bexc # "none" /\ Len(results) < Len(paths)) => paths[Len(results) + 1] \notin marked
    /\ bpc = "done" =>
          /\ Len(final.reports.rows) = Cardinality({i \in 1..Len(paths) : paths[i] \notin marked})
          /\ \A i \in 1..Len(paths) :
                paths[i] \in marked =>
                    /\ ReportIdOf(paths[i].path).value
                          \notin {final.reports.rows[k].index[1] : k \in 1..Len(final.reports.rows)}
                    /\ RowsOf(final.outbreaks, ReportIdOf(paths[i].path).value) = {}
                    /\ RowsOf(final.tests, ReportIdOf(paths[i].path).value) = {}

\* C2, as stated: for every document whose raw body holds the marker, whether
\* or not tables can be parsed out of it, process_report returns the empty
\* triple without raising, and the report has no row in the final reports
\* table.
C2_EveryMarkedDocument ==
    PlaceholderHandling({d \in BatchDocuments : HasMarker(d)})

\* C2, amended: for every document in which pd.read_html finds no table and
\* whose raw body holds the marker, process_report returns the empty triple
\* without raising, and the report has no row in the final reports table.
C2_PlaceholderDocument ==
    PlaceholderHandling({d \in BatchDocuments : IsPlaceholder(d)})

\* a batch of the error page and a report was assembled
C2_Witness ==
    /\ bpc = "done"
    /\ \E i, j \in 1..Len(paths) : IsPlaceholder(paths[i]) /\ ~IsPlaceholder(paths[j])
    /\ Len(final.reports.rows) = 1

-----------------------------------------------------------------------------
(* Properties of get_reports (SpecDownload) *)

\* C9: the fetch of an uncached report id is attempted again after every
\* failed attempt, up to MAX_RETRIES attempts; the retry loop is left for
\* the write after a successful attempt only, and get_reports raises only
\* when the last of MAX_RETRIES attempts has failed.
C9_RetriesUntilSuccess ==
    /\ dpc = "write" => lastOk
    /\ dexc # "none" => requests[Current] = MAX_RETRIES

\* C10: every file get_reports wrote holds the body of a successful request
\* for the same report id, and a file that was there before is neither
\* rewritten nor fetched again.
C10_CacheIntegrity ==
    \A id \in IdPool :
        /\ id \in wrote =>
              /\ files[id].kind = "body"
              /\ files[id].of = id
              /\ files[id] \in served[id]
        /\ files[id].kind = "cached" => requests[id] = 0

=============================================================================
